---- MODULE Spec2Model ----
(***************************************************************************)
(* Model of train_lm_pfam.py: loading of the two Pfam splits, device       *)
(* setup, batch collation, and the train/test loop of main() with its      *)
(* running-mean accumulators, metric lines and per-epoch checkpoints.      *)
(* Sequences are 1-based here; column j of the source is column j+1.       *)
(***************************************************************************)
EXTENDS Integers, Sequences, FiniteSets, TLC

(* ---------------------------- bounds ----------------------------------- *)
MaxTrain == 1
MaxTest == 2
MaxEpochs == 2
MaxBatch == 2

(* ------------------------ program constants ---------------------------- *)
ntokens == 21
nin == ntokens + 1
nout == ntokens
mask_idx == ntokens

None == "None"

(* ------------------------- exact arithmetic ---------------------------- *)
Abs(a) == IF a < 0 THEN 0 - a ELSE a

RECURSIVE GCD(_, _)
GCD(a, b) == IF b = 0 THEN a ELSE GCD(b, a % b)

Rat(p, q) ==
    LET g == GCD(Abs(p), q)
    IN  IF p = 0 THEN <<0, 1>> ELSE <<p \div g, q \div g>>

RZero == <<0, 1>>
RInt(a) == <<a, 1>>
RAdd(r, s) == Rat(r[1] * s[2] + s[1] * r[2], r[2] * s[2])
RSub(r, s) == Rat(r[1] * s[2] - s[1] * r[2], r[2] * s[2])
RScale(a, r) == Rat(a * r[1], r[2])
RDivInt(r, a) == Rat(r[1], r[2] * a)

(* ------------------------- sequences of bytes -------------------------- *)
Upper(ch) ==
    CASE ch = "a" -> "A"
      [] ch = "r" -> "R"
      [] ch = "v" -> "V"
      [] ch = "x" -> "X"
      [] OTHER -> ch

UpperSeq(s) == [i \in 1..Len(s) |-> Upper(s[i])]

\* Uniprot21: index of the residue in the 21-letter alphabet, whose 21st
\* letter stands for any other amino acid.
EncodeChar(ch) ==
    CASE ch = "A" -> 0
      [] ch = "R" -> 1
      [] ch = "V" -> 19
      [] OTHER -> ntokens - 1

Encode(s) == [i \in 1..Len(s) |-> EncodeChar(s[i])]

\* preprocess_sequence without the shift that frees 0 for start/stop
preprocess_sequence_NoShift(s) ==
    LET x == Encode(s)
    IN  [i \in 1..(Len(x) + 2) |->
            IF i = 1 \/ i = Len(x) + 2 THEN 0 ELSE x[i - 1]]

\* z = zeros(len(x)+2); z[1:-1] = x + 1
preprocess_sequence(s) ==
    LET x == Encode(s)
    IN  [i \in 1..(Len(x) + 2) |->
            IF i = 1 \/ i = Len(x) + 2 THEN 0 ELSE x[i - 1] + 1]

\* bytes.split(sep): the pieces between the separators, empty pieces kept
RECURSIVE SplitFrom(_, _, _, _)
SplitFrom(s, sep, i, cur) ==
    IF i > Len(s) THEN <<cur>>
    ELSE IF s[i] = sep THEN <<cur>> \o SplitFrom(s, sep, i + 1, <<>>)
    ELSE SplitFrom(s, sep, i + 1, Append(cur, s[i]))

Split(s, sep) == SplitFrom(s, sep, 1, <<>>)

\* name.split(b';')[-1]
Family_LastPiece(name) ==
    LET parts == Split(name, ";")
    IN  [ok |-> Len(parts) >= 2, value |-> parts[Len(parts)]]

\* name.split(b';')[-2]; ok is false where the subscript raises IndexError
Family(name) ==
    LET parts == Split(name, ";")
    IN  [ok |-> Len(parts) >= 2,
         value |-> IF Len(parts) >= 2 THEN parts[Len(parts) - 1] ELSE <<>>]

LoadError(e) == [err |-> e, group |-> <<>>, sequences |-> <<>>]

\* load_pfam that drops what it cannot read instead of raising
load_pfam_SkipMalformed(f) ==
    LET ok == SelectSeq(f.records, LAMBDA r : Family(r.name).ok)
    IN  [err |-> None,
         group |-> [i \in 1..Len(ok) |-> Family(ok[i].name).value],
         sequences |-> [i \in 1..Len(ok) |->
                           preprocess_sequence(UpperSeq(ok[i].sequence))]]

load_pfam(f) ==
    LET recs == f.records
    IN  IF ~f.exists THEN LoadError("IOError")
        ELSE IF \E i \in 1..Len(recs) : ~Family(recs[i].name).ok
        THEN LoadError("IndexError")
        ELSE [err |-> None,
              group |-> [i \in 1..Len(recs) |-> Family(recs[i].name).value],
              sequences |-> [i \in 1..Len(recs) |->
                                preprocess_sequence(UpperSeq(recs[i].sequence))]]

(* ------------------------------ collate -------------------------------- *)
Perms(n) ==
    {p \in [1..n -> 1..n] : \A i, j \in 1..n : i # j => p[i] # p[j]}

Max(S) == CHOOSE m \in S : \A k \in S : k <= m

Min2(a, b) == IF a < b THEN a ELSE b

\* np.argsort(lengths) without the reversal
Argsort_Ascending(lens) ==
    {p \in Perms(Len(lens)) :
        \A i, j \in 1..Len(lens) : i < j => lens[p[i]] <= lens[p[j]]}

\* np.argsort(lengths)[::-1]: a permutation that lists the lengths in
\* non-increasing order; the order among equal lengths is up to the sort.
ArgsortReversed(lens) ==
    {p \in Perms(Len(lens)) :
        \A i, j \in 1..Len(lens) : i < j => lens[p[i]] >= lens[p[j]]}

Lengths(xs) == [i \in 1..Len(xs) |-> Len(xs[i])]

collate(xs, order) ==
    LET B == Len(xs)
        N == Max({Len(xs[i]) : i \in 1..B})
    IN  [X |-> [i \in 1..B |-> [j \in 1..N |->
                   IF j <= Len(xs[order[i]]) THEN xs[order[i]][j]
                   ELSE mask_idx]],
         lengths |-> [i \in 1..B |-> Lengths(xs)[order[i]]]]

(* --------------------------- mask and index ---------------------------- *)
\* a mask on the start/stop token instead of mask_idx
Mask_NonZero(X) ==
    [i \in 1..Len(X) |-> [j \in 1..Len(X[i]) |-> X[i][j] # 0]]

\* mask = (X != mask_idx)
Mask(X) ==
    [i \in 1..Len(X) |-> [j \in 1..Len(X[i]) |-> X[i][j] # mask_idx]]

\* index = X, not multiplied by the mask
Index_Unmasked(X, m) ==
    [i \in 1..Len(X) |-> [j \in 1..Len(X[i]) |-> X[i][j]]]

\* index = X * mask.long()
Index(X, m) ==
    [i \in 1..Len(X) |-> [j \in 1..Len(X[i]) |->
        IF m[i][j] THEN X[i][j] ELSE 0]]

RECURSIVE SumSeq(_)
SumSeq(s) == IF s = <<>> THEN 0 ELSE s[1] + SumSeq(Tail(s))

RowCount(row) == Cardinality({j \in 1..Len(row) : row[j]})

\* b = mask.long().sum().item()
MaskCount(m) == SumSeq([i \in 1..Len(m) |-> RowCount(m[i])])

(* ------------------------ running-mean update -------------------------- *)
\* the update with the loss delta not weighted by b
Accumulate_NoWeight(acc, b, L, c) ==
    LET n1 == acc.n + b
    IN  [n |-> n1,
         loss_accum |-> RAdd(acc.loss_accum,
                             RDivInt(RSub(L, acc.loss_accum), n1)),
         accuracy |-> RAdd(acc.accuracy,
                           RDivInt(RSub(RInt(c), RScale(b, acc.accuracy)), n1))]

\* n += b; loss_accum += b*(loss - loss_accum)/n;
\* accuracy += (correct - b*accuracy)/n
Accumulate(acc, b, L, c) ==
    LET n1 == acc.n + b
    IN  [n |-> n1,
         loss_accum |-> RAdd(acc.loss_accum,
                             RDivInt(RScale(b, RSub(L, acc.loss_accum)), n1)),
         accuracy |-> RAdd(acc.accuracy,
                           RDivInt(RSub(RInt(c), RScale(b, acc.accuracy)), n1))]

AccZero == [n |-> 0, loss_accum |-> RZero, accuracy |-> RZero]

(* --------------------------- epoch labels ------------------------------ *)
RECURSIVE Str(_)
Str(k) == IF k < 10 THEN <<k>> ELSE Append(Str(k \div 10), k % 10)

RECURSIVE ZFill(_, _)
ZFill(s, w) == IF Len(s) >= w THEN s ELSE ZFill(<<0>> \o s, w)

\* int(np.floor(np.log10(num_epochs))) + 1, for num_epochs >= 1
Digits(k) == Len(Str(k))

Label(e, w) == ZFill(Str(e + 1), w)

(* ------------------------------- inputs -------------------------------- *)
NameTrailing == <<"p", ";", "f", ";">>
NameOpen == <<"p", ";", "f", ";", "g">>
NameNoSep == <<"p">>

Records ==
    { [name |-> NameTrailing, sequence |-> <<>>],
      [name |-> NameTrailing, sequence |-> <<"a", "x">>],
      [name |-> NameOpen, sequence |-> <<"V", "R">>],
      [name |-> NameNoSep, sequence |-> <<"A">>] }

\* the files of at most k records, no record twice
SeqsUpTo(S, k) ==
    UNION {{r \in [1..m -> S] : \A i, j \in 1..m : i # j => r[i] # r[j]} :
              m \in 0..k}

NoFile == [exists |-> FALSE, records |-> <<>>]

Files(k) ==
    {[exists |-> TRUE, records |-> r] : r \in SeqsUpTo(Records, k)}
        \cup {NoFile}

Devices == {-2, -1, 0, 1}
Cpu == -1
NoDevice == -9

\* what the network returns for a batch of b unmasked positions: the mean
\* loss L and the number c of correct predictions
Outcomes(b) ==
    { [L |-> <<1, 2>>, c |-> 1],
      [L |-> <<2, 1>>, c |-> b] }

(* ------------------------------- state --------------------------------- *)
VARIABLES
    device, num_epochs, save_prefix, mb,   \* parsed arguments
    cuda_available,                        \* torch.cuda.is_available()
    pc, error,                             \* position in main(), exception
    train_file, test_file,                 \* records the parser yielded
    train_group, X_train, test_group, X_test,
    use_cuda, cur_device, model_device,
    digits, out, epoch, acc, pending,
    xs, X, lengths, mask, index, fwd,      \* the batch of the last forward
    hist,                                  \* batches of the current phase
    saves                                  \* checkpoints written, in order

vars == <<device, num_epochs, save_prefix, mb, cuda_available, pc, error,
          train_file, test_file, train_group, X_train, test_group, X_test,
          use_cuda, cur_device, model_device, digits, out, epoch, acc,
          pending, xs, X, lengths, mask, index, fwd, hist, saves>>

argv == <<device, num_epochs, save_prefix, mb>>
args == <<argv, cuda_available>>
data == <<train_file, test_file, train_group, X_train, test_group, X_test>>
dev == <<use_cuda, cur_device, model_device>>
batch == <<xs, X, lengths, mask, index, fwd>>
loop == <<epoch, acc, pending, hist>>

Init ==
    /\ device \in Devices
    /\ num_epochs \in 0..MaxEpochs
    /\ save_prefix \in {None, "prefix"}
    /\ mb \in 1..MaxBatch
    /\ cuda_available = FALSE
    /\ pc = "load_train"
    /\ error = None
    /\ train_file = NoFile /\ test_file = NoFile
    /\ train_group = <<>> /\ X_train = <<>>
    /\ test_group = <<>> /\ X_test = <<>>
    /\ use_cuda = FALSE /\ cur_device = 0 /\ model_device = NoDevice
    /\ digits = 0 /\ out = <<>> /\ epoch = 0
    /\ acc = AccZero /\ pending = <<>>
    /\ xs = <<>> /\ X = <<>> /\ lengths = <<>> /\ mask = <<>> /\ index = <<>>
    /\ fwd = [model |-> NoDevice, x |-> NoDevice]
    /\ hist = <<>>
    /\ saves = <<>>

Raise(e) == pc' = "crashed" /\ error' = e

(* ------------------------------ loading -------------------------------- *)
LoadTrain ==
    /\ pc = "load_train"
    /\ \E f \in Files(MaxTrain) :
        LET r == load_pfam(f)
        IN  /\ train_file' = f
            /\ IF r.err # None
               THEN Raise(r.err) /\ UNCHANGED <<train_group, X_train>>
               ELSE /\ train_group' = r.group
                    /\ X_train' = r.sequences
                    /\ pc' = "load_test"
                    /\ UNCHANGED error
    /\ UNCHANGED <<args, test_file, test_group, X_test, dev, digits, out,
                   loop, batch, saves>>

LoadTest ==
    /\ pc = "load_test"
    /\ \E f \in Files(MaxTest) :
        LET r == load_pfam(f)
        IN  /\ test_file' = f
            /\ IF r.err # None
               THEN Raise(r.err) /\ UNCHANGED <<test_group, X_test>>
               ELSE /\ test_group' = r.group
                    /\ X_test' = r.sequences
                    /\ pc' = "init_model"
                    /\ UNCHANGED error
    /\ UNCHANGED <<args, train_file, train_group, X_train, dev, digits, out,
                   loop, batch, saves>>

(* --------------------------- model and device -------------------------- *)
InitModel ==
    /\ pc = "init_model"
    /\ model_device' = Cpu
    /\ pc' = "device"
    /\ UNCHANGED <<args, error, data, use_cuda, cur_device, digits, out,
                   loop, batch, saves>>

\* torch.cuda.is_available() and (device == -2 or device >= 0)
UseCuda(avail, d) == avail /\ (d = -2 \/ d >= 0)

DeviceSetup ==
    /\ pc = "device"
    /\ cuda_available' \in BOOLEAN
    /\ use_cuda' = UseCuda(cuda_available', device)
    /\ IF device >= 0 /\ ~cuda_available'
       THEN \* torch.cuda.set_device without CUDA raises
            /\ Raise("CudaError")
            /\ UNCHANGED <<cur_device, model_device>>
       ELSE /\ cur_device' = IF device >= 0 THEN device ELSE cur_device
            /\ model_device' = IF use_cuda' THEN cur_device' ELSE model_device
            /\ pc' = "iterators"
            /\ UNCHANGED error
    /\ UNCHANGED <<argv, data, digits, out, loop, batch, saves>>

\* DataLoader(X_train, shuffle=True): the random sampler of some torch
\* releases rejects an empty data set, that of others yields no batch.
MakeIterators ==
    /\ pc = "iterators"
    /\ \/ /\ pc' = "header"
          /\ UNCHANGED error
       \/ /\ Len(X_train) = 0
          /\ Raise("ValueError")
    /\ UNCHANGED <<args, data, dev, digits, out, loop, batch, saves>>

(* ------------------------------ the loop ------------------------------- *)
HeaderLine == [kind |-> "header", epoch |-> <<>>, split |-> "split",
               log_p |-> RZero, accuracy |-> RZero]

MetricsLine(e, w, split, a) ==
    [kind |-> "metrics", epoch |-> Label(e, w), split |-> split,
     log_p |-> a.loss_accum, accuracy |-> a.accuracy]

\* main() binds no optimizer: the name solver is assigned nowhere
SolverDefined == FALSE

PrintHeader ==
    /\ pc = "header"
    /\ IF num_epochs = 0
       THEN \* int(floor(log10(0))) + 1: int(-inf)
            /\ Raise("OverflowError")
            /\ UNCHANGED <<digits, out>>
       ELSE /\ digits' = Digits(num_epochs)
            /\ out' = Append(out, HeaderLine)
            /\ pc' = "epoch"
            /\ UNCHANGED error
    /\ UNCHANGED <<args, data, dev, loop, batch, saves>>

TrainBegin ==
    /\ pc = "epoch"
    /\ epoch < num_epochs
    /\ acc' = AccZero
    /\ hist' = <<>>
    /\ \E p \in Perms(Len(X_train)) : pending' = p
    /\ pc' = "train"
    /\ UNCHANGED <<args, error, data, dev, digits, out, epoch, batch, saves>>

Finish ==
    /\ pc = "epoch"
    /\ epoch >= num_epochs
    /\ pc' = "done"
    /\ UNCHANGED <<args, error, data, dev, digits, out, loop, batch, saves>>

\* collate of the next batch, placement of X, forward pass, mask and index
Forward(dataset, order) ==
    LET k == Min2(mb, Len(pending))
        xs0 == [i \in 1..k |-> dataset[pending[i]]]
        r == collate(xs0, order)
        m == Mask(r.X)
    IN  /\ xs' = xs0
        /\ X' = r.X
        /\ lengths' = r.lengths
        /\ mask' = m
        /\ index' = Index(r.X, m)
        /\ fwd' = [model |-> model_device,
                   x |-> IF use_cuda THEN cur_device ELSE Cpu]

NextLengths(dataset) ==
    Lengths([i \in 1..Min2(mb, Len(pending)) |-> dataset[pending[i]]])

Rest(q, k) == SubSeq(q, k + 1, Len(q))

Update(L, c) ==
    LET b == MaskCount(mask')
    IN  /\ acc' = Accumulate(acc, b, L, c)
        /\ hist' = Append(hist, [b |-> b, L |-> L, c |-> c])
        /\ pending' = Rest(pending, Min2(mb, Len(pending)))

TrainBatch ==
    /\ pc = "train"
    /\ pending # <<>>
    /\ \E order \in ArgsortReversed(NextLengths(X_train)) :
          Forward(X_train, order)
    /\ IF SolverDefined
       THEN /\ \E o \in Outcomes(MaskCount(mask')) : Update(o.L, o.c)
            /\ UNCHANGED <<pc, error>>
       ELSE \* loss.backward(), clip_grad_norm_, then solver.step()
            /\ Raise("NameError")
            /\ UNCHANGED <<acc, hist, pending>>
    /\ UNCHANGED <<args, data, dev, digits, out, epoch, saves>>

TrainReport ==
    /\ pc = "train"
    /\ pending = <<>>
    /\ out' = Append(out, MetricsLine(epoch, digits, "train", acc))
    /\ pc' = "test_begin"
    /\ UNCHANGED <<args, error, data, dev, digits, loop, batch, saves>>

TestBegin ==
    /\ pc = "test_begin"
    /\ acc' = AccZero
    /\ hist' = <<>>
    /\ pending' = [i \in 1..Len(X_test) |-> i]
    /\ pc' = "test"
    /\ UNCHANGED <<args, error, data, dev, digits, out, epoch, batch, saves>>

TestBatch ==
    /\ pc = "test"
    /\ pending # <<>>
    /\ \E order \in ArgsortReversed(NextLengths(X_test)) :
          Forward(X_test, order)
    /\ \E o \in Outcomes(MaskCount(mask')) : Update(o.L, o.c)
    /\ UNCHANGED <<args, pc, error, data, dev, digits, out, epoch, saves>>

TestReport ==
    /\ pc = "test"
    /\ pending = <<>>
    /\ out' = Append(out, MetricsLine(epoch, digits, "test", acc))
    /\ pc' = "save"
    /\ UNCHANGED <<args, error, data, dev, digits, loop, batch, saves>>

SavePath(prefix, e, w) == [prefix |-> prefix, label |-> Label(e, w)]

\* the checkpoint without the move back to the GPU
AfterSave_StayOnCpu(cuda, cur) == Cpu

\* model = model.cpu(); torch.save(...); if use_cuda: model = model.cuda()
AfterSave(cuda, cur) == IF cuda THEN cur ELSE Cpu

SaveModel ==
    /\ pc = "save"
    /\ IF save_prefix # None
       THEN /\ saves' = Append(saves,
                                [path |-> SavePath(save_prefix, epoch, digits),
                                 epoch |-> epoch + 1,
                                 lines |-> Len(out)])
            /\ model_device' = AfterSave(use_cuda, cur_device)
       ELSE UNCHANGED <<saves, model_device>>
    /\ epoch' = epoch + 1
    /\ pc' = "epoch"
    /\ UNCHANGED <<args, error, data, use_cuda, cur_device, digits, out,
                   acc, pending, hist, batch>>

Next ==
    \/ LoadTrain
    \/ LoadTest
    \/ InitModel
    \/ DeviceSetup
    \/ MakeIterators
    \/ PrintHeader
    \/ TrainBegin
    \/ TrainBatch
    \/ TrainReport
    \/ TestBegin
    \/ TestBatch
    \/ TestReport
    \/ SaveModel
    \/ Finish

Spec == Init /\ [][Next]_vars

(* ============================== properties ============================= *)
Terminated == pc \in {"done", "crashed"}

Loaded == pc \notin {"load_train", "load_test", "crashed"}
              \/ (pc = "crashed" /\ error \notin {"IOError", "IndexError"})

IsMetrics(line, e, split) ==
    /\ line.kind = "metrics"
    /\ line.split = split
    /\ line.epoch = ZFill(Str(e), Len(Str(num_epochs)))

\* C1: run with num_epochs = E >= 1 and non-empty splits, main() writes the
\* header once and first, then for e = 1..E one train line followed by one
\* test line, 2E metrics lines in total, and terminates normally.
C1_CompleteRun ==
    (/\ Terminated
     /\ out # <<>>
     /\ num_epochs >= 1
     /\ Len(X_train) > 0
     /\ Len(X_test) > 0)
    => /\ pc = "done"
       /\ Len(out) = 2 * num_epochs + 1
       /\ out[1].kind = "header"
       /\ \A e \in 1..num_epochs :
            /\ IsMetrics(out[2 * e], e, "train")
            /\ IsMetrics(out[2 * e + 1], e, "test")

RECURSIVE SumB(_)
SumB(h) == IF h = <<>> THEN 0 ELSE h[1].b + SumB(Tail(h))

RECURSIVE SumC(_)
SumC(h) == IF h = <<>> THEN 0 ELSE h[1].c + SumC(Tail(h))

RECURSIVE SumBL(_)
SumBL(h) ==
    IF h = <<>> THEN RZero ELSE RAdd(RScale(h[1].b, h[1].L), SumBL(Tail(h)))

C2_MeansOfPhase ==
    /\ acc.n = SumB(hist)
    /\ RScale(acc.n, acc.loss_accum) = SumBL(hist)
    /\ RScale(acc.n, acc.accuracy) = RInt(SumC(hist))
    /\ \A k \in 1..Len(hist) : hist[k].b >= 1
    /\ (pc = "test_begin" \/ pc = "save") =>
          /\ out[Len(out)].log_p = acc.loss_accum
          /\ out[Len(out)].accuracy = acc.accuracy

C2_PhaseStartsAtZero ==
    (pc' \in {"train", "test"} /\ pc' # pc) =>
        (acc'.n = 0 /\ acc'.loss_accum = RZero /\ acc'.accuracy = RZero
            /\ hist' = <<>>)

\* C2: after the k-th batch of a phase, n is the sum of the batches' unmasked
\* counts, loss_accum is the count-weighted mean of the batch losses and
\* accuracy is the total of correct predictions over n, in exact arithmetic;
\* every phase of every epoch starts from n = 0, loss_accum = 0, accuracy =
\* 0, and the reported line carries the means of its own phase.
C2_RunningMean == [](C2_MeansOfPhase) /\ [][C2_PhaseStartsAtZero]_vars

C2_Witness ==
    /\ pc = "test"
    /\ epoch >= 1
    /\ Len(hist) = 2
    /\ hist[1].b # hist[2].b
    /\ hist[1].L # hist[2].L
    /\ hist[1].c > 0

\* C3: collate returns a B x N matrix, N the longest input, and lengths that
\* are non-increasing; the rows are the inputs under a one-to-one
\* correspondence, each row holding its input unchanged in its first
\* lengths[i] columns and mask_idx in every later column.
C3_Collate ==
    xs # <<>> =>
        LET B == Len(xs)
            N == Max({Len(xs[i]) : i \in 1..B})
        IN  /\ Len(X) = B /\ Len(lengths) = B
            /\ \A i \in 1..B : Len(X[i]) = N
            /\ \A i \in 1..(B - 1) : lengths[i] >= lengths[i + 1]
            /\ \E p \in Perms(B) : \A i \in 1..B :
                  /\ lengths[i] = Len(xs[p[i]])
                  /\ \A j \in 1..lengths[i] : X[i][j] = xs[p[i]][j]
                  /\ \A j \in (lengths[i] + 1)..N : X[i][j] = mask_idx

C3_Witness ==
    /\ Len(xs) = 2
    /\ Len(xs[1]) < Len(xs[2])
    /\ X[1] = xs[2]
    /\ X[2][Len(X[2])] = mask_idx

Preprocessed(z, s) ==
    LET x == Encode(s)
    IN  /\ Len(z) = Len(x) + 2
        /\ z[1] = 0
        /\ z[Len(z)] = 0
        /\ \A i \in 1..Len(x) : z[i + 1] = x[i] + 1
        /\ \A i \in 2..(Len(z) - 1) : z[i] # 0

\* C4: preprocess_sequence(s) has length len(encode(s)) + 2, holds 0 at both
\* ends and encode(s)[i-1] + 1 in between, also for the empty sequence, so 0
\* occurs only at the two ends.
C4_Preprocess ==
    /\ \A i \in 1..Len(X_train) :
          Preprocessed(X_train[i], UpperSeq(train_file.records[i].sequence))
    /\ \A i \in 1..Len(X_test) :
          Preprocessed(X_test[i], UpperSeq(test_file.records[i].sequence))

C4_Witness ==
    /\ \E i \in 1..Len(X_test) : test_file.records[i].sequence = <<>>
    /\ \E i \in 1..Len(X_test) : Len(X_test[i]) = 4

Positions(name, sep) == {i \in 1..Len(name) : name[i] = sep}

\* the entry that the last ';' of the name closes
EntryBeforeLastSep(name) ==
    LET k == Max(Positions(name, ";"))
        j == Max({0} \cup {i \in Positions(name, ";") : i < k})
    IN  SubSeq(name, j + 1, k - 1)

\* the last entry of the name: its last non-empty piece
LastEntry(name) ==
    LET parts == SelectSeq(Split(name, ";"), LAMBDA q : Len(q) > 0)
    IN  parts[Len(parts)]

LoadedAs(group, sequences, f, FamilyOf(_)) ==
    /\ Len(group) = Len(f.records)
    /\ Len(sequences) = Len(f.records)
    /\ \A i \in 1..Len(f.records) :
          /\ group[i] = FamilyOf(f.records[i].name)
          /\ Preprocessed(sequences[i], UpperSeq(f.records[i].sequence))

ForwardDone == fwd.model # NoDevice

\* C6: at every forward pass the model and the batch are on the same
\* device: the CPU for device = -1, the GPU exactly when CUDA is available
\* for the default -2, and GPU number d for device = d >= 0; also in the
\* epochs that follow a checkpoint save.
C6_SameDevice ==
    ForwardDone =>
        /\ fwd.model = fwd.x
        /\ device = -1 => fwd.x = Cpu
        /\ device = -2 => (fwd.x >= 0 <=> cuda_available)
        /\ device >= 0 => fwd.x = device

C6_Witness ==
    /\ ForwardDone
    /\ pc = "test"
    /\ hist # <<>>
    /\ epoch >= 1
    /\ saves # <<>>
    /\ device = 1
    /\ fwd.x = 1

\* C7: with --save-prefix, exactly one checkpoint is written per epoch
\* 1..num_epochs, after the epoch's test line, at the path of the epoch's
\* zero-padded label, all paths distinct; without it, none is written.
C7_CheckpointPerEpoch ==
    (Terminated /\ out # <<>>) =>
        IF save_prefix = None THEN saves = <<>>
        ELSE /\ Len(saves) = num_epochs
             /\ \A e \in 1..Len(saves) :
                   /\ saves[e].epoch = e
                   /\ saves[e].path.label = ZFill(Str(e), Len(Str(num_epochs)))
                   /\ saves[e].lines = 2 * e + 1
             /\ \A e, g \in 1..Len(saves) :
                   e # g => saves[e].path # saves[g].path

BadFile(f) ==
    \/ ~f.exists
    \/ \E i \in 1..Len(f.records) : Positions(f.records[i].name, ";") = {}

NothingWritten == out = <<>> /\ saves = <<>> /\ ~ForwardDone

C8_NothingAfterFailure ==
    /\ (pc # "load_train" /\ BadFile(train_file)) =>
          /\ pc = "crashed" /\ error \in {"IOError", "IndexError"}
          /\ train_group = <<>> /\ X_train = <<>>
          /\ test_file = NoFile /\ X_test = <<>>
          /\ NothingWritten
    /\ (pc \notin {"load_train", "load_test"} /\ ~BadFile(train_file)
            /\ BadFile(test_file)) =>
          /\ pc = "crashed" /\ error \in {"IOError", "IndexError"}
          /\ test_group = <<>> /\ X_test = <<>>
          /\ NothingWritten
    /\ (pc \notin {"load_train", "load_test", "init_model", "device"}
            /\ ~BadFile(train_file) /\ ~BadFile(test_file)
            /\ device >= 0 /\ ~cuda_available) =>
          /\ pc = "crashed" /\ error = "CudaError"
          /\ model_device = Cpu /\ ~use_cuda
          /\ NothingWritten

\* C8: a failed load of either split (missing file, or a record whose name
\* holds no ';') and a GPU device requested without CUDA end the script at
\* that point: load_pfam hands back nothing, no header, metrics line or
\* checkpoint is written, and no step follows the failure.
C8_FailureStops == [](C8_NothingAfterFailure) /\ [][pc # "crashed"]_vars

C8_Witness ==
    /\ pc = "crashed"
    /\ error = "IndexError"
    /\ Len(X_train) = 1
    /\ Len(test_file.records) = 2
    /\ Positions(test_file.records[1].name, ";") # {}
    /\ Positions(test_file.records[2].name, ";") = {}

BatchDone == X # <<>>

Cells == UNION {{<<i, j>> : j \in 1..Len(X[i])} : i \in 1..Len(X)}

\* residues of the batch that the alphabet encodes as its last letter
UnknownResidues ==
    SumSeq([i \in 1..Len(xs) |->
               Cardinality({j \in 1..Len(xs[i]) : xs[i][j] = ntokens})])

\* C9 as stated: mask is true at exactly the positions j < lengths[i], and
\* b is the sum of the lengths of the batch.
C9_MaskIsNonPadding ==
    BatchDone =>
        /\ \A c \in Cells : mask[c[1]][c[2]] <=> c[2] <= lengths[c[1]]
        /\ MaskCount(mask) = SumSeq(lengths)

\* C9 amended: mask is true at exactly the positions j < lengths[i] whose
\* token is not mask_idx; the start/stop tokens and the residues encoded
\* 0..19 always count, a residue encoded 20 (token 21) never does, and b is
\* the sum of the lengths less the number of such residues.
C9_MaskIsNonPaddingKnown ==
    BatchDone =>
        /\ \A c \in Cells :
              mask[c[1]][c[2]] <=>
                  (c[2] <= lengths[c[1]] /\ X[c[1]][c[2]] # ntokens)
        /\ \A i \in 1..Len(X) : mask[i][1] /\ mask[i][lengths[i]]
        /\ \A c \in Cells :
              (c[2] <= lengths[c[1]] /\ X[c[1]][c[2]] \in 0..(ntokens - 1))
                  => mask[c[1]][c[2]]
        /\ MaskCount(mask) = SumSeq(lengths) - UnknownResidues

C9_Witness ==
    /\ BatchDone
    /\ Len(X) = 2
    /\ lengths[1] = 4 /\ lengths[2] = 2
    /\ X[1][3] = ntokens
    /\ ~mask[1][3]
    /\ ~mask[2][3]
    /\ MaskCount(mask) = 5

\* C10: every entry of index = X * mask lies in 0..nout-1 although X holds
\* values up to nin-1, and index equals X wherever mask is true.
C10_IndexInRange ==
    BatchDone =>
        \A c \in Cells :
            /\ X[c[1]][c[2]] \in 0..(nin - 1)
            /\ index[c[1]][c[2]] \in 0..(nout - 1)
            /\ mask[c[1]][c[2]] => index[c[1]][c[2]] = X[c[1]][c[2]]

C10_Witness ==
    /\ BatchDone
    /\ \E c \in Cells : X[c[1]][c[2]] = nin - 1 /\ index[c[1]][c[2]] = 0
    /\ \E c \in Cells : mask[c[1]][c[2]] /\ index[c[1]][c[2]] = nout - 1

====
